---- MODULE Spec2Model ----
(***************************************************************************)
(* Cluster map viewer (src/main.py): the volume scan that builds the       *)
(* file -> extents map, the viewport that materializes cluster buttons     *)
(* around the highlighted file and extends them on scroll, and the click   *)
(* handler that resolves the owner of a cluster and switches highlight.    *)
(*                                                                         *)
(* A name is a sequence of characters; the 25 characters of                *)
(* "System Volume Information" are written as one element.  A path is the  *)
(* sequence of names below the volume root.  A cluster range is a pair     *)
(* <<start, end>>, both ends inclusive.                                    *)
(***************************************************************************)
EXTENDS Integers, Sequences, FiniteSets, TLC

\* ------------------------------------------------------------------ bounds
\* Number of clusters of the modelled volume (what fsutil fsinfo reports).
TotalClusters == 12
\* Number of presses of the load button a behaviour may contain.
MaxLoads == 2
\* The load button is pressed only while at most this many buttons exist
\* (cluster_buttons is never emptied, so reloads make it grow for ever).
MaxOldButtons == 4

\* Window.visible_range, scaled down from the 500 of the program.
visible_range == 2

\* ---------------------------------------------------------- the volume
D1 == <<"D", "1">>
D2 == <<"D", "2">>
Sub == <<"S">>
DollarX == <<"$", "X">>
SVI == <<"System Volume Information">>
fa == <<"a">>
fb == <<"b">>
fc == <<"c">>
fe == <<"e">>
fr == <<"r">>
fx == <<"x">>
fv == <<"v">>

Dir(n) == [name |-> n, kind |-> "dir"]
File(n) == [name |-> n, kind |-> "file"]

\* os.scandir(dir): the entries of a directory, in listing order.
Children(dir) ==
  CASE dir = <<>> -> <<File(fr), Dir(D1), Dir(D2), Dir(DollarX), Dir(SVI)>>
    [] dir = <<D1>> -> <<File(fa), Dir(Sub)>>
    [] dir = <<D1, Sub>> -> <<File(fb)>>
    [] dir = <<D2>> -> <<File(fc), File(fe)>>
    [] dir = <<DollarX>> -> <<File(fx)>>
    [] dir = <<SVI>> -> <<File(fv)>>
    [] OTHER -> <<>>

AllDirs == {<<>>, <<D1>>, <<D1, Sub>>, <<D2>>, <<DollarX>>, <<SVI>>}
AllFiles ==
  {<<fr>>, <<D1, fa>>, <<D1, Sub, fb>>, <<D2, fc>>, <<D2, fe>>,
   <<DollarX, fx>>, <<SVI, fv>>}

\* What `fsutil file queryextents` prints for a file: one record per extent,
\* the cluster count (field 3 of the line) and the LCN (last field).
Extent(lcn, count) == [lcn |-> lcn, count |-> count]
FsutilExtents(path) ==
  CASE path = <<fr>> -> <<Extent(0, 1)>>
    [] path = <<D1, fa>> -> <<Extent(4, 1), Extent(6, 1)>>
    [] path = <<D1, Sub, fb>> -> <<Extent(8, 2)>>
    [] path = <<D2, fc>> -> <<Extent(10, 2)>>
    [] path = <<DollarX, fx>> -> <<Extent(1, 1)>>
    [] path = <<SVI, fv>> -> <<Extent(2, 1)>>
    [] OTHER -> <<>>

\* Directories whose listing may be denied, files whose extent query may
\* exit non-zero: the environment decides at each scan.
DeniableDirs == {<<D1, Sub>>}
FlakyFiles == {<<D2, fc>>}

\* ------------------------------------------------------------- paths
\* pathlib.Path on Windows compares and hashes case-insensitively.
Lower(ch) ==
  CASE ch = "D" -> "d"
    [] ch = "S" -> "s"
    [] ch = "X" -> "x"
    [] ch = "System Volume Information" -> "system volume information"
    [] OTHER -> ch

LowerName(n) == [i \in DOMAIN n |-> Lower(n[i])]

\* Path(text): the identity under which a path is stored as a key and compared.
Path(text) == [i \in DOMAIN text |-> LowerName(text[i])]

\* self.file_path = None
None == << <<"None">> >>

\* Exists without the test: every text passes.
Exists_Always(text) == TRUE

\* os.path.exists(text): some file or directory of the volume has that path.
Exists(text) == \E p \in AllFiles \cup AllDirs : Path(p) = Path(text)

\* Texts the user types into the path field.
InputTexts ==
  {<<D1, fa>>, <<<<"d", "1">>, fa>>, <<D1, Sub, fb>>, <<D2, fc>>, <<D2, fe>>,
   <<fr>>, <<D1>>, <<<<"z">>>>}

\* ------------------------------------------------------ extent probe
\* get_file_clusters: [] when fsutil exits non-zero or reports no extents,
\* else (start, start + count - 1) per printed extent.
get_file_clusters(path, failing) ==
  IF path \in failing THEN <<>>
  ELSE LET out == FsutilExtents(path) IN
       [i \in DOMAIN out |-> <<out[i].lcn, out[i].lcn + out[i].count - 1>>]

\* ---------------------------------------------------------------- scan
StartsWith(n, prefix) ==
  /\ Len(n) >= Len(prefix)
  /\ SubSeq(n, 1, Len(prefix)) = prefix

valid_directory(n) ==
  ~(StartsWith(n, <<"$">>) \/ StartsWith(n, <<"System Volume Information">>))

\* file_clusters[path] = clusters
DictPut(d, k, v) == [x \in DOMAIN d \cup {k} |-> IF x = k THEN v ELSE d[x]]

\* scan_directory(root, file_clusters), from entry i of the listing on:
\* the dictionary afterwards, and whether an exception left the walk.
\* os.scandir raises for a directory that cannot be listed and nothing
\* catches it.
RECURSIVE ScanFrom(_, _, _, _, _)
ScanFrom(root, i, file_clusters, denied, failing) ==
  IF root \in denied THEN [raised |-> TRUE, file_clusters |-> file_clusters]
  ELSE IF i > Len(Children(root))
  THEN [raised |-> FALSE, file_clusters |-> file_clusters]
  ELSE
    LET entry == Children(root)[i]
        path == Append(root, entry.name)
    IN  IF entry.kind = "dir" /\ valid_directory(entry.name)
        THEN LET sub == ScanFrom(path, 1, file_clusters, denied, failing)
             IN  IF sub.raised THEN sub
                 ELSE ScanFrom(root, i + 1, sub.file_clusters, denied, failing)
        ELSE IF entry.kind = "file"
        THEN LET clusters == get_file_clusters(path, failing)
             IN  ScanFrom(root, i + 1,
                          IF clusters # <<>>
                          THEN DictPut(file_clusters, path, clusters)
                          ELSE file_clusters,
                          denied, failing)
        ELSE ScanFrom(root, i + 1, file_clusters, denied, failing)

scan_directory(root, file_clusters, denied, failing) ==
  ScanFrom(root, 1, file_clusters, denied, failing)

\* get_files_with_clusters: one task per valid directory of the volume root,
\* all writing into one dictionary; every task runs to its end whatever the
\* others do, and future.result() re-raises what a task raised.  The result
\* is keyed by Path(path).
RECURSIVE RunTasks(_, _, _, _)
RunTasks(i, acc, denied, failing) ==
  IF i > Len(Children(<<>>)) THEN acc
  ELSE
    LET entry == Children(<<>>)[i]
    IN  IF entry.kind = "dir" /\ valid_directory(entry.name)
        THEN LET r == scan_directory(<<entry.name>>, acc.file_clusters,
                                     denied, failing)
             IN  RunTasks(i + 1,
                          [raised |-> acc.raised \/ r.raised,
                           file_clusters |-> r.file_clusters],
                          denied, failing)
        ELSE RunTasks(i + 1, acc, denied, failing)

get_files_with_clusters(denied, failing) ==
  LET done == RunTasks(1, [raised |-> FALSE, file_clusters |-> <<>>],
                       denied, failing)
      keys == {Path(p) : p \in DOMAIN done.file_clusters}
  IN  [raised |-> done.raised,
       map |-> [k \in keys |->
                 done.file_clusters[CHOOSE p \in DOMAIN done.file_clusters :
                                      Path(p) = k]]]

\* ------------------------------------------------------- volume info
\* What `fsutil fsinfo ntfsinfo` does when asked.
\* "norun": the command cannot be started; "nonzero": it exits non-zero;
\* "noline": it prints no total-clusters line; "ok": it prints the total.
FsutilAnswers == {"ok", "nonzero", "noline", "norun"}

\* get_disk_clusters: 0 when fsutil exits non-zero; the printed total when
\* the output has the total-clusters line; int('') raises ValueError when
\* the output has no such line, and subprocess.run raises when the command
\* cannot be started.
get_disk_clusters(answer) ==
  CASE answer = "nonzero" -> [raised |-> FALSE, value |-> 0]
    [] answer = "ok" -> [raised |-> FALSE, value |-> TotalClusters]
    [] OTHER -> [raised |-> TRUE, value |-> 0]

\* ------------------------------------------------------------ viewport
\* InRanges with the end of a range left out: start <= index < end.
InRanges_ExclusiveEnd(index, group) ==
  \E i \in DOMAIN group : group[i][1] <= index /\ index < group[i][2]

\* any(start <= index <= end for start, end in group)
InRanges(index, group) ==
  \E i \in DOMAIN group : group[i][1] <= index /\ index <= group[i][2]

\* any(... for file_clusters in self.file_clusters_map.values() ...)
InMap(index, map) == \E p \in DOMAIN map : InRanges(index, map[p])

btn_style(index, group, map) ==
  IF InRanges(index, group) THEN "yellow"
  ELSE IF InMap(index, map) THEN "blue"
  ELSE "gray"

\* add_cluster_button: a new button for index, appended to cluster_buttons.
add_cluster_button(buttons, index, group, map) ==
  Append(buttons, [index |-> index, style |-> btn_style(index, group, map)])

\* range(lo, hi + 1)
RangeSeq(lo, hi) == [i \in 1..(hi - lo + 1) |-> lo + i - 1]

SetMin(S) == CHOOSE x \in S : \A y \in S : x <= y
SetMax(S) == CHOOSE x \in S : \A y \in S : x >= y
Min2(a, b) == IF a <= b THEN a ELSE b
Max2(a, b) == IF a >= b THEN a ELSE b

\* AddEach without the membership test: every index gets a button.
RECURSIVE AddEach_NoTest(_, _, _, _, _)
AddEach_NoTest(indices, i, view, group, map) ==
  IF i > Len(indices) THEN view
  ELSE AddEach_NoTest(indices, i + 1,
                      [loaded |-> view.loaded \cup {indices[i]},
                       buttons |-> add_cluster_button(view.buttons,
                                                      indices[i], group, map)],
                      group, map)

\* for cluster_index in indices: if cluster_index not in loaded_clusters:
\*     add_cluster_button(cluster_index); loaded_clusters.add(cluster_index)
RECURSIVE AddEach(_, _, _, _, _)
AddEach(indices, i, view, group, map) ==
  IF i > Len(indices) THEN view
  ELSE LET idx == indices[i]
       IN  IF idx \notin view.loaded
           THEN AddEach(indices, i + 1,
                        [loaded |-> view.loaded \cup {idx},
                         buttons |-> add_cluster_button(view.buttons, idx,
                                                        group, map)],
                        group, map)
           ELSE AddEach(indices, i + 1, view, group, map)

\* NearRange with the upper margin one short: range(start - vr, end + vr).
NearRange_ShortEnd(range, disk_clusters, vr) ==
  SelectSeq(RangeSeq(range[1] - vr, range[2] + vr - 1),
            LAMBDA c : 0 <= c /\ c < disk_clusters)

\* The indices one range of the highlighted file asks for:
\* range(start - visible_range, end + visible_range + 1), kept when
\* 0 <= cluster_index < disk_clusters.
NearRange(range, disk_clusters, vr) ==
  SelectSeq(RangeSeq(range[1] - vr, range[2] + vr),
            LAMBDA c : 0 <= c /\ c < disk_clusters)

\* display_clusters_near_highlighted, from range r of cluster_group on.
RECURSIVE DisplayFrom(_, _, _, _, _, _)
DisplayFrom(r, view, group, map, disk_clusters, vr) ==
  IF r > Len(group) THEN view
  ELSE DisplayFrom(r + 1,
                   AddEach(NearRange(group[r], disk_clusters, vr), 1, view,
                           group, map),
                   group, map, disk_clusters, vr)

\* view is (loaded_clusters, cluster_buttons), vr is self.visible_range.
display_clusters_near_highlighted(view, group, map, disk_clusters, vr) ==
  DisplayFrom(1, view, group, map, disk_clusters, vr)

\* The range load_additional_clusters walks: range(start + 1, end + 1).
AdditionalRange(above, loaded, disk_clusters, vr) ==
  LET min_loaded == IF loaded # {} THEN SetMin(loaded) ELSE 0
      max_loaded == IF loaded # {} THEN SetMax(loaded) ELSE 0
      start == IF above THEN Max2(min_loaded - vr, 0)
               ELSE max_loaded + 1
      end == IF above THEN min_loaded
             ELSE Min2(max_loaded + vr, disk_clusters)
  IN  RangeSeq(start + 1, end)

\* load_additional_clusters that empties loaded_clusters first, the way
\* load_clusters does.
load_additional_clusters_Clearing(above, view, group, map, disk_clusters, vr) ==
  AddEach(AdditionalRange(above, view.loaded, disk_clusters, vr), 1,
          [loaded |-> {}, buttons |-> view.buttons], group, map)

load_additional_clusters(above, view, group, map, disk_clusters, vr) ==
  AddEach(AdditionalRange(above, view.loaded, disk_clusters, vr), 1, view,
          group, map)

\* ------------------------------------------------------------- click
\* Owners with the start of a range left out: start < cluster_index <= end.
Owners_ExclusiveStart(cluster_index, map) ==
  {p \in DOMAIN map :
     \E i \in DOMAIN map[p] :
       map[p][i][1] < cluster_index /\ cluster_index <= map[p][i][2]}

\* The files the ownership loop of handle_cluster_click matches; the loop
\* keeps the last one in dictionary order.
Owners(cluster_index, map) ==
  {p \in DOMAIN map : InRanges(cluster_index, map[p])}

\* Restyle without its first loop: the old group keeps its colour.
Restyle_NoBlue(buttons, old_group, clicked_group) ==
  [i \in DOMAIN buttons |->
    [index |-> buttons[i].index,
     style |-> IF InRanges(buttons[i].index, clicked_group)
               THEN "yellow" ELSE buttons[i].style]]

\* The two restyling loops over cluster_buttons: the old group to blue,
\* then the clicked group to yellow.
Restyle(buttons, old_group, clicked_group) ==
  [i \in DOMAIN buttons |->
    LET b == buttons[i]
        s1 == IF InRanges(b.index, old_group) THEN "blue" ELSE b.style
    IN  [index |-> b.index,
         style |-> IF InRanges(b.index, clicked_group) THEN "yellow" ELSE s1]]

\* ---------------------------------------------------------------- state
VARIABLES
  path_input,         \* text of the path field
  file_path,          \* highlighted path, or None
  file_clusters_map,  \* Path -> sequence of cluster ranges
  cluster_group,      \* ranges of the highlighted file
  loaded_clusters,    \* set of materialized cluster indices
  cluster_buttons,    \* sequence of [index, style], in creation order
  crashed,            \* an exception left a handler: the process is gone
  loads,              \* presses of the load button so far
  lastOp,             \* the event handled last, its inputs and its outcome
  scan_pc,            \* where get_files_with_clusters stands, step by step
  scan_entry,         \* index of the root entry / future it looks at next
  futures,            \* the submitted tasks, in submission order
  file_clusters,      \* the dictionary the tasks share
  scan_env            \* what the volume denies and fails during the scan

scanVars == <<scan_pc, scan_entry, futures, file_clusters, scan_env>>

windowVars ==
  <<path_input, file_path, file_clusters_map, cluster_group, loaded_clusters,
    cluster_buttons, crashed, loads, lastOp>>

vars ==
  <<path_input, file_path, file_clusters_map, cluster_group, loaded_clusters,
    cluster_buttons, crashed, loads, lastOp, scan_pc, scan_entry, futures,
    file_clusters, scan_env>>

\* tick alternates, so that no event is a stuttering step.
Op(op, above, index, disk, denied, failing, result) ==
  [op |-> op, above |-> above, index |-> index, disk |-> disk,
   denied |-> denied, failing |-> failing, result |-> result,
   tick |-> 1 - lastOp.tick]

\* Window.__init__
WindowInit ==
  /\ path_input = <<>>
  /\ file_path = None
  /\ file_clusters_map = <<>>
  /\ cluster_group = <<>>
  /\ loaded_clusters = {}
  /\ cluster_buttons = <<>>
  /\ crashed = FALSE
  /\ loads = 0
  /\ lastOp = [op |-> "init", above |-> FALSE, index |-> 0, disk |-> 0,
               denied |-> {}, failing |-> {}, result |-> "init", tick |-> 0]

\* No scan is being followed step by step.
ScanIdle ==
  /\ scan_pc = "idle"
  /\ scan_entry = 0
  /\ futures = <<>>
  /\ file_clusters = <<>>
  /\ scan_env = [denied |-> {}, failing |-> {}]

Init == WindowInit /\ ScanIdle

\* The user types text and presses the load button: load_clusters.
load_clusters(text, denied, failing, answer) ==
  /\ ~crashed
  /\ loads < MaxLoads
  /\ Len(cluster_buttons) <= MaxOldButtons
  /\ loads' = loads + 1
  /\ path_input' = text
  /\ IF ~Exists(text)
     THEN /\ lastOp' = Op("load", FALSE, 0, 0, {}, {}, "invalid_path")
          /\ UNCHANGED <<file_path, file_clusters_map, cluster_group,
                         loaded_clusters, cluster_buttons, crashed>>
     ELSE
       LET scan == get_files_with_clusters(denied, failing)
           group == IF Path(text) \in DOMAIN scan.map
                    THEN scan.map[Path(text)] ELSE <<>>
           q == get_disk_clusters(answer)
           view == display_clusters_near_highlighted(
                     [loaded |-> {}, buttons |-> cluster_buttons],
                     group, scan.map, q.value, visible_range)
       IN  /\ file_path' = Path(text)
           /\ IF scan.raised
              THEN /\ crashed' = TRUE
                   /\ lastOp' = Op("load", FALSE, 0, 0, denied, failing,
                                   "scan_raised")
                   /\ UNCHANGED <<file_clusters_map, cluster_group,
                                  loaded_clusters, cluster_buttons>>
              ELSE /\ file_clusters_map' = scan.map
                   /\ cluster_group' = group
                   /\ IF q.raised
                      THEN /\ crashed' = TRUE
                           /\ loaded_clusters' = {}
                           /\ lastOp' = Op("load", FALSE, 0, 0, denied,
                                           failing, "query_raised")
                           /\ UNCHANGED cluster_buttons
                      ELSE /\ crashed' = FALSE
                           /\ loaded_clusters' = view.loaded
                           /\ cluster_buttons' = view.buttons
                           /\ lastOp' = Op("load", FALSE, 0, q.value, denied,
                                           failing, "displayed")

\* The scroll bar moved to position pos: on_scroll.  The bar moves only
\* when the scroll area has content.
on_scroll(pos, answer1, answer2) ==
  /\ ~crashed
  /\ cluster_buttons # <<>>
  /\ UNCHANGED <<path_input, file_path, file_clusters_map, cluster_group,
                 loads>>
  /\ LET q1 == get_disk_clusters(answer1)
         q2 == get_disk_clusters(answer2)
         above == (pos = "top")
         view == load_additional_clusters(
                   above,
                   [loaded |-> loaded_clusters, buttons |-> cluster_buttons],
                   cluster_group, file_clusters_map, q2.value, visible_range)
     IN  IF q1.raised \/ (pos # "middle" /\ q2.raised)
         THEN /\ crashed' = TRUE
              /\ lastOp' = Op("scroll", above, 0, 0, {}, {}, "query_raised")
              /\ UNCHANGED <<loaded_clusters, cluster_buttons>>
         ELSE IF pos = "middle"
         THEN /\ lastOp' = Op("scroll", FALSE, 0, 0, {}, {}, "middle")
              /\ UNCHANGED <<loaded_clusters, cluster_buttons, crashed>>
         ELSE /\ loaded_clusters' = view.loaded
              /\ cluster_buttons' = view.buttons
              /\ lastOp' = Op("scroll", above, 0, q2.value, {}, {}, "extended")
              /\ UNCHANGED crashed

\* A click on the button of cluster_index: handle_cluster_click.
handle_cluster_click(cluster_index) ==
  /\ ~crashed
  /\ \E i \in DOMAIN cluster_buttons : cluster_buttons[i].index = cluster_index
  /\ UNCHANGED <<file_clusters_map, loaded_clusters, crashed, loads>>
  /\ LET owners == Owners(cluster_index, file_clusters_map)
     IN  IF owners = {}
         THEN /\ lastOp' = Op("click", FALSE, cluster_index, 0, {}, {},
                              "Unowned")
              /\ UNCHANGED <<path_input, file_path, cluster_group,
                             cluster_buttons>>
         ELSE \E clicked_file_path \in owners :
                LET clicked_cluster_group ==
                      file_clusters_map[clicked_file_path]
                IN  IF clicked_file_path = file_path
                    THEN /\ lastOp' = Op("click", FALSE, cluster_index, 0,
                                         {}, {}, "SameFileDetail")
                         /\ UNCHANGED <<path_input, file_path, cluster_group,
                                        cluster_buttons>>
                    ELSE /\ cluster_buttons' =
                              Restyle(cluster_buttons, cluster_group,
                                      clicked_cluster_group)
                         /\ file_path' = clicked_file_path
                         /\ cluster_group' = clicked_cluster_group
                         /\ path_input' = clicked_file_path
                         /\ lastOp' = Op("click", FALSE, cluster_index, 0,
                                         {}, {}, "OtherFileSelected")

LoadEvent ==
  /\ \E text \in InputTexts, denied \in SUBSET DeniableDirs,
        failing \in SUBSET FlakyFiles, answer \in FsutilAnswers :
       load_clusters(text, denied, failing, answer)
  /\ UNCHANGED scanVars

ScrollEvent ==
  /\ \E pos \in {"top", "middle", "bottom"}, a1 \in FsutilAnswers,
        a2 \in FsutilAnswers :
       on_scroll(pos, a1, a2)
  /\ UNCHANGED scanVars

ClickEvent ==
  /\ \E c \in 0..TotalClusters : handle_cluster_click(c)
  /\ UNCHANGED scanVars

Next == LoadEvent \/ ScrollEvent \/ ClickEvent

Spec == Init /\ [][Next]_vars

\* ------------------------------------------- the scan, thread by thread
\* One call of get_files_with_clusters followed step by step: the calling
\* thread submits a task per valid root directory, waits for each future,
\* leaves the `with` block (shutdown(wait=True)) and returns or raises; the
\* pool's threads run the tasks.  A store into the shared dictionary is one
\* step: the interpreter lock makes file_clusters[path] = clusters atomic.

\* ThreadPoolExecutor(max_workers=4)
max_workers == 4

Task(root) == [root |-> root, state |-> "queued", stack |-> <<>>,
               pending |-> <<>>]
Frame(dir, i) == [dir |-> dir, i |-> i]

Finished(task) == task.state \in {"done", "failed"}

Running == {t \in DOMAIN futures : futures[t].state = "running"}

Top(task) == task.stack[Len(task.stack)]
Pop(stack) == SubSeq(stack, 1, Len(stack) - 1)
SetTop(stack, frame) == [stack EXCEPT ![Len(stack)] = frame]

\* StoreEntry replacing the dictionary by the one new entry.
StoreEntry_Overwrite(shared, pending) ==
  IF pending.clusters # <<>>
  THEN [x \in {pending.path} |-> pending.clusters]
  ELSE shared

\* if clusters: file_clusters[entry.path] = clusters
StoreEntry(shared, pending) ==
  IF pending.clusters # <<>>
  THEN DictPut(shared, pending.path, pending.clusters)
  ELSE shared

\* shutdown(wait=False): the `with` block is left at once.
PoolExitReady_NoWait(tasks) == TRUE

\* ThreadPoolExecutor.__exit__: shutdown(wait=True) returns when every
\* submitted task has run to its end.
PoolExitReady(tasks) == \A t \in DOMAIN tasks : Finished(tasks[t])

\* {Path(path): clusters for path, clusters in file_clusters.items()}
ResultMap(dict) ==
  [k \in {Path(p) : p \in DOMAIN dict} |->
     dict[CHOOSE p \in DOMAIN dict : Path(p) = k]]

ScanInit ==
  /\ WindowInit
  /\ scan_pc = "submit"
  /\ scan_entry = 1
  /\ futures = <<>>
  /\ file_clusters = <<>>
  /\ \E denied \in SUBSET DeniableDirs, failing \in SUBSET FlakyFiles :
       scan_env = [denied |-> denied, failing |-> failing]

\* for entry in os.scandir(disk_name): submit a task for a valid directory.
submit_tasks ==
  /\ scan_pc = "submit"
  /\ IF scan_entry > Len(Children(<<>>))
     THEN /\ scan_pc' = "join"
          /\ scan_entry' = 1
          /\ UNCHANGED futures
     ELSE LET entry == Children(<<>>)[scan_entry]
          IN  /\ futures' = IF entry.kind = "dir" /\ valid_directory(entry.name)
                            THEN Append(futures, Task(<<entry.name>>))
                            ELSE futures
              /\ scan_entry' = scan_entry + 1
              /\ UNCHANGED scan_pc
  /\ UNCHANGED <<file_clusters, scan_env>>
  /\ UNCHANGED windowVars

\* A free thread of the pool takes the oldest queued task.
worker_start(t) ==
  /\ futures[t].state = "queued"
  /\ \A u \in 1..(t - 1) : futures[u].state # "queued"
  /\ Cardinality(Running) < max_workers
  /\ futures' = [futures EXCEPT ![t].state = "running",
                                ![t].stack = <<Frame(futures[t].root, 0)>>]
  /\ UNCHANGED <<scan_pc, scan_entry, file_clusters, scan_env>>
  /\ UNCHANGED windowVars

\* os.scandir(root) of the innermost scan_directory call: it raises for a
\* directory that cannot be listed, and the exception ends the task.
worker_scandir(t) ==
  /\ futures[t].state = "running"
  /\ futures[t].pending = <<>>
  /\ Top(futures[t]).i = 0
  /\ futures' =
       IF Top(futures[t]).dir \in scan_env.denied
       THEN [futures EXCEPT ![t].state = "failed", ![t].stack = <<>>]
       ELSE [futures EXCEPT ![t].stack =
               SetTop(@, Frame(Top(futures[t]).dir, 1))]
  /\ UNCHANGED <<scan_pc, scan_entry, file_clusters, scan_env>>
  /\ UNCHANGED windowVars

\* One pass of the loop of scan_directory: recurse into a valid directory,
\* probe a file, pass over anything else.
worker_entry(t) ==
  /\ futures[t].state = "running"
  /\ futures[t].pending = <<>>
  /\ LET top == Top(futures[t])
     IN  /\ top.i >= 1
         /\ top.i <= Len(Children(top.dir))
         /\ LET entry == Children(top.dir)[top.i]
                path == Append(top.dir, entry.name)
                next == SetTop(futures[t].stack, Frame(top.dir, top.i + 1))
            IN  futures' =
                  IF entry.kind = "dir" /\ valid_directory(entry.name)
                  THEN [futures EXCEPT ![t].stack = Append(next, Frame(path, 0))]
                  ELSE IF entry.kind = "file"
                  THEN [futures EXCEPT
                          ![t].stack = next,
                          ![t].pending =
                            <<[path |-> path,
                               clusters |->
                                 get_file_clusters(path, scan_env.failing)]>>]
                  ELSE [futures EXCEPT ![t].stack = next]
  /\ UNCHANGED <<scan_pc, scan_entry, file_clusters, scan_env>>
  /\ UNCHANGED windowVars

\* The store that follows a probe.
worker_store(t) ==
  /\ futures[t].state = "running"
  /\ futures[t].pending # <<>>
  /\ file_clusters' = StoreEntry(file_clusters, futures[t].pending[1])
  /\ futures' = [futures EXCEPT ![t].pending = <<>>]
  /\ UNCHANGED <<scan_pc, scan_entry, scan_env>>
  /\ UNCHANGED windowVars

\* The loop of a scan_directory call is over: the call returns, and the
\* task is done when it was the outermost call.
worker_return(t) ==
  /\ futures[t].state = "running"
  /\ futures[t].pending = <<>>
  /\ Top(futures[t]).i > Len(Children(Top(futures[t]).dir))
  /\ futures' =
       IF Len(futures[t].stack) = 1
       THEN [futures EXCEPT ![t].state = "done", ![t].stack = <<>>]
       ELSE [futures EXCEPT ![t].stack = Pop(@)]
  /\ UNCHANGED <<scan_pc, scan_entry, file_clusters, scan_env>>
  /\ UNCHANGED windowVars

\* for future in futures: future.result() -- waits for that task and
\* re-raises what it raised.
future_result ==
  /\ scan_pc = "join"
  /\ IF scan_entry > Len(futures)
     THEN /\ scan_pc' = "exit"
          /\ UNCHANGED scan_entry
     ELSE /\ Finished(futures[scan_entry])
          /\ IF futures[scan_entry].state = "failed"
             THEN /\ scan_pc' = "exit_raising"
                  /\ UNCHANGED scan_entry
             ELSE /\ scan_entry' = scan_entry + 1
                  /\ UNCHANGED scan_pc
  /\ UNCHANGED <<futures, file_clusters, scan_env>>
  /\ UNCHANGED windowVars

\* The end of the `with` block, then the return statement or the exception
\* reaching the caller.
pool_exit ==
  /\ scan_pc \in {"exit", "exit_raising"}
  /\ PoolExitReady(futures)
  /\ scan_pc' = IF scan_pc = "exit" THEN "returned" ELSE "raised"
  /\ UNCHANGED <<scan_entry, futures, file_clusters, scan_env>>
  /\ UNCHANGED windowVars

ScanNext ==
  \/ submit_tasks
  \/ future_result
  \/ pool_exit
  \/ \E t \in DOMAIN futures : worker_start(t)
  \/ \E t \in DOMAIN futures : worker_scandir(t)
  \/ \E t \in DOMAIN futures : worker_entry(t)
  \/ \E t \in DOMAIN futures : worker_store(t)
  \/ \E t \in DOMAIN futures : worker_return(t)

SpecScan == ScanInit /\ [][ScanNext]_vars

\* ================================================================ claims
\* Indices of the buttons a step appends to cluster_buttons.
Materialized ==
  {cluster_buttons'[i].index :
     i \in (Len(cluster_buttons) + 1)..Len(cluster_buttons')}

\* A step in which load_additional_clusters ran to its end.
Extended(above) ==
  /\ lastOp'.op = "scroll"
  /\ lastOp'.result = "extended"
  /\ lastOp'.above = above

\* C1: extend(Below) on a non-empty loaded set materializes exactly the
\* indices of (max(loaded), max(loaded) + visible_range] that are below
\* total_clusters and not yet loaded, and adds them to loaded.
C1_ExtendBelowExact ==
  [][(Extended(FALSE) /\ loaded_clusters # {}) =>
       LET m == SetMax(loaded_clusters)
           want == {i \in (m + 1)..(m + visible_range) :
                      i < lastOp'.disk /\ i \notin loaded_clusters}
       IN  /\ Materialized = want
           /\ loaded_clusters' = loaded_clusters \cup want]_vars

\* C2: extend(Above) on a non-empty loaded set materializes exactly the
\* not yet loaded indices of [min(loaded) - visible_range, min(loaded)),
\* the lower end clamped at 0, and adds them to loaded; for min(loaded) =
\* m > 0 the new minimum is max(m - visible_range, 0).
C2_ExtendAboveExact ==
  [][(Extended(TRUE) /\ loaded_clusters # {}) =>
       LET m == SetMin(loaded_clusters)
           want == {i \in Max2(m - visible_range, 0)..(m - 1) :
                      i \notin loaded_clusters}
       IN  /\ Materialized = want
           /\ loaded_clusters' = loaded_clusters \cup want
           /\ m > 0 => SetMin(loaded_clusters') = Max2(m - visible_range, 0)]_vars

\* C3: in every reachable state every loaded index lies in
\* [0, total_clusters).
C3_LoadedWithinDisk ==
  \A i \in loaded_clusters : 0 <= i /\ i < TotalClusters

\* The clusters within vr of a range of group, on a disk of disk clusters.
NearSet(group, disk, vr) ==
  UNION {(group[r][1] - vr)..(group[r][2] + vr) : r \in DOMAIN group}
    \cap 0..(disk - 1)

\* C4: the initial load materializes exactly the union over the highlighted
\* ranges (s, e) of [s - visible_range, e + visible_range], cut to
\* [0, total_clusters), minus what is already loaded; extents [(100,104)]
\* with 1000 clusters and a margin of 5 give {95..109}, and 0 clusters give
\* nothing.
C4_InitialLoadExact ==
  /\ [][(lastOp'.op = "load" /\ lastOp'.result = "displayed") =>
          /\ Materialized = NearSet(cluster_group', lastOp'.disk, visible_range)
          /\ loaded_clusters' = Materialized]_vars
  /\ [](\A d \in {0, TotalClusters} :
          display_clusters_near_highlighted(
              [loaded |-> loaded_clusters, buttons |-> <<>>],
              cluster_group, file_clusters_map, d, visible_range).loaded
            = loaded_clusters
                \cup NearSet(cluster_group, d, visible_range))
  /\ [](/\ display_clusters_near_highlighted(
              [loaded |-> {}, buttons |-> <<>>], <<<<100, 104>>>>,
              file_clusters_map, 1000, 5).loaded = 95..109
        /\ display_clusters_near_highlighted(
              [loaded |-> {}, buttons |-> <<>>], <<<<100, 104>>>>,
              file_clusters_map, 0, 5).buttons = <<>>)

\* An initial load around a file of two ranges, on a volume that answered.
C4_Witness ==
  /\ lastOp.op = "load"
  /\ lastOp.result = "displayed"
  /\ lastOp.disk = TotalClusters
  /\ Len(cluster_group) = 2
  /\ Cardinality(loaded_clusters) > visible_range

\* C5: extend in either direction materializes nothing and leaves loaded
\* unchanged when loaded is empty, and when the loaded boundary is already
\* at the disk edge.
C5_ExtendNoOp ==
  [][\A above \in BOOLEAN :
       (/\ Extended(above)
        /\ \/ loaded_clusters = {}
           \/ above /\ SetMin(loaded_clusters) = 0
           \/ ~above /\ SetMax(loaded_clusters) >= lastOp'.disk - 1)
       => UNCHANGED <<loaded_clusters, cluster_buttons>>]_vars

\* The clusters of a sequence of inclusive ranges.
Covered(ranges) == UNION {ranges[i][1]..ranges[i][2] : i \in DOMAIN ranges}

\* No cluster lies in the extents of two files of the map.
PairwiseDisjoint(map) ==
  \A p, q \in DOMAIN map :
    p # q => Covered(map[p]) \cap Covered(map[q]) = {}

\* The files of the map whose extents contain cluster c.
Holders(c, map) == {p \in DOMAIN map : c \in Covered(map[p])}

\* C6: with pairwise disjoint extents, a click on cluster c yields
\* SameFileDetail and no highlight change when c is in the highlighted
\* extents, OtherFileSelected with that file's stored path and extents when
\* c is in another mapped file's extents, and Unowned when no mapped file
\* holds c.
C6_ResolveClick ==
  [][(lastOp'.op = "click" /\ PairwiseDisjoint(file_clusters_map)) =>
       LET c == lastOp'.index
       IN  IF c \in Covered(cluster_group)
           THEN /\ lastOp'.result = "SameFileDetail"
                /\ UNCHANGED <<file_path, cluster_group, cluster_buttons>>
           ELSE IF Holders(c, file_clusters_map) # {}
           THEN /\ lastOp'.result = "OtherFileSelected"
                /\ file_path' \in Holders(c, file_clusters_map)
                /\ file_path' # file_path
                /\ cluster_group' = file_clusters_map[file_path']
           ELSE /\ lastOp'.result = "Unowned"
                /\ UNCHANGED <<file_path, cluster_group, cluster_buttons>>]_vars

\* A click that selected another file.
C6_Witness ==
  /\ lastOp.op = "click"
  /\ lastOp.result = "OtherFileSelected"
  /\ PairwiseDisjoint(file_clusters_map)
  /\ Cardinality(DOMAIN file_clusters_map) > 1

\* Two files A = [(10,20)] and B = [(30,40)].
TwoFiles == [p \in {"A", "B"} |->
              IF p = "A" THEN <<<<10, 20>>>> ELSE <<<<30, 40>>>>]

\* C7: for every cluster of the disk the ownership lookup finds the one
\* file whose inclusive ranges contain it, or none, never two files; with
\* A = [(10,20)] and B = [(30,40)] cluster 15 is A's, 25 nobody's, 35 B's,
\* and 10, 20, 30, 40 are owned.
C7_OwnerUnique ==
  /\ \A c \in 0..(TotalClusters - 1) :
       /\ Owners(c, file_clusters_map) = Holders(c, file_clusters_map)
       /\ Cardinality(Owners(c, file_clusters_map)) <= 1
  /\ (lastOp.op = "click" /\ lastOp.result = "OtherFileSelected") =>
       Holders(lastOp.index, file_clusters_map) = {file_path}
  /\ Owners(15, TwoFiles) = {"A"}
  /\ Owners(25, TwoFiles) = {}
  /\ Owners(35, TwoFiles) = {"B"}
  /\ Owners(10, TwoFiles) = {"A"} /\ Owners(20, TwoFiles) = {"A"}
  /\ Owners(30, TwoFiles) = {"B"} /\ Owners(40, TwoFiles) = {"B"}

\* A click on the last cluster of a range of several clusters, resolved to
\* its file, in a map of three files.
C7_Witness ==
  /\ lastOp.op = "click"
  /\ lastOp.result = "SameFileDetail"
  /\ Cardinality(DOMAIN file_clusters_map) = 3
  /\ \E i \in DOMAIN cluster_group :
       cluster_group[i][1] < lastOp.index /\ cluster_group[i][2] = lastOp.index

\* A directory name the scan must not enter.
Excluded(n) == n[1] = "$" \/ n[1] = "System Volume Information"

\* The regular files below the root with no excluded directory on the way.
ReachableFiles ==
  {f \in AllFiles : \A i \in 1..(Len(f) - 1) : ~Excluded(f[i])}

\* The last event was a load whose scan returned a map.
ScanReturned ==
  /\ lastOp.op = "load"
  /\ lastOp.result \in {"displayed", "query_raised"}

\* C8: the map a scan returns has as keys exactly the regular files
\* reachable from the volume root through non-excluded directories whose
\* extent probe was non-empty, each mapped to its probe result.
C8_ScanKeysExact ==
  ScanReturned =>
    LET want == {f \in ReachableFiles :
                   get_file_clusters(f, lastOp.failing) # <<>>}
    IN  /\ DOMAIN file_clusters_map = {Path(f) : f \in want}
        /\ \A f \in want :
             file_clusters_map[Path(f)] = get_file_clusters(f, lastOp.failing)

\* C9: when a subdirectory cannot be read, the scan does not end in an
\* error and the map holds every readable file with non-empty extents
\* outside it.
C9_ScanSkipsUnreadable ==
  (lastOp.op = "load" /\ lastOp.denied # {}) =>
    /\ lastOp.result # "scan_raised"
    /\ \A f \in ReachableFiles :
         (/\ \A i \in 1..(Len(f) - 1) : SubSeq(f, 1, i) \notin lastOp.denied
          /\ get_file_clusters(f, lastOp.failing) # <<>>)
         => Path(f) \in DOMAIN file_clusters_map

\* No file or directory of the volume has the path text.
NoSuchPath(text) == \A p \in AllFiles \cup AllDirs : Path(p) # Path(text)

\* C10: a load with a path that does not exist leaves the map, the loaded
\* set, the buttons, the highlighted path and the highlighted extents
\* unchanged.
C10_InvalidPathNoChange ==
  [][(lastOp'.op = "load" /\ NoSuchPath(path_input')) =>
       UNCHANGED <<file_clusters_map, loaded_clusters, cluster_buttons,
                   file_path, cluster_group>>]_vars

\* A load of a missing path while an earlier session is displayed.
C10_Witness ==
  /\ lastOp.op = "load"
  /\ lastOp.result = "invalid_path"
  /\ NoSuchPath(path_input)
  /\ cluster_buttons # <<>>
  /\ loaded_clusters # {}
  /\ file_path # None

\* get_files_with_clusters has returned its map or raised to its caller.
ScanOver == scan_pc \in {"returned", "raised"}

\* C11: the scan returns (or raises) only after every submitted task has
\* run to its end: no task stores into the shared dictionary afterwards.
C11_JoinBeforeReturn ==
  /\ [](ScanOver => \A t \in DOMAIN futures : Finished(futures[t]))
  /\ [][ScanOver => file_clusters' = file_clusters]_vars

\* The scan raised for one task while the other task had stored its entries.
C11_Witness ==
  /\ scan_pc = "raised"
  /\ \E t \in DOMAIN futures : futures[t].state = "failed"
  /\ \E t \in DOMAIN futures : futures[t].state = "done"
  /\ Cardinality(DOMAIN file_clusters) > 1

\* What the task of root directory root stores when it runs alone.
Alone(root) ==
  scan_directory(root, <<>>, scan_env.denied, scan_env.failing).file_clusters

\* C12: whatever the interleaving of the tasks, the dictionary at the end
\* of the scan holds exactly the entries each task stores when run alone,
\* none lost or overwritten; a returned map is the one a sequential scan
\* gives.
C12_UnionOfWorkers ==
  ScanOver =>
    /\ DOMAIN file_clusters =
         UNION {DOMAIN Alone(futures[t].root) : t \in DOMAIN futures}
    /\ \A t \in DOMAIN futures :
         \A p \in DOMAIN Alone(futures[t].root) :
           file_clusters[p] = Alone(futures[t].root)[p]
    /\ scan_pc = "returned" =>
         ResultMap(file_clusters) =
           get_files_with_clusters(scan_env.denied, scan_env.failing).map

\* A returned scan in which both tasks stored entries.
C12_Witness ==
  /\ scan_pc = "returned"
  /\ Len(futures) = 2
  /\ \A t \in DOMAIN futures :
       \E p \in DOMAIN file_clusters : p[1] = futures[t].root[1]

\* C13: get_disk_clusters returns 0 for every kind of query failure and
\* never raises, so no load or scroll event ends in an exception because of
\* a failed volume query.
C13_QueryFailureIsZero ==
  lastOp.op \in {"load", "scroll"} => lastOp.result # "query_raised"

\* C14: no scroll or click event removes a cluster from loaded, and an
\* extend never moves its boundary inward: min(loaded) does not increase
\* under extend(Above), max(loaded) does not decrease under extend(Below).
C14_LoadedGrows ==
  [][/\ lastOp'.op \in {"scroll", "click"} =>
          loaded_clusters \subseteq loaded_clusters'
     /\ (Extended(TRUE) /\ loaded_clusters # {}) =>
          /\ loaded_clusters' # {}
          /\ SetMin(loaded_clusters') <= SetMin(loaded_clusters)
     /\ (Extended(FALSE) /\ loaded_clusters # {}) =>
          /\ loaded_clusters' # {}
          /\ SetMax(loaded_clusters') >= SetMax(loaded_clusters)]_vars

\* An extend past the clusters of the initial load, which are still loaded.
C14_Witness ==
  /\ lastOp.op = "scroll"
  /\ lastOp.result = "extended"
  /\ cluster_group # <<>>
  /\ NearSet(cluster_group, TotalClusters, visible_range)
       \subseteq loaded_clusters
  /\ NearSet(cluster_group, TotalClusters, visible_range) # loaded_clusters

\* C15: a click in another file replaces the highlighted path and extents
\* by the clicked file's, restyles every materialized cluster of the old
\* extents as owned by another file and every materialized cluster of the
\* new extents as highlighted, and leaves loaded and the map unchanged.
C15_SelectRestyles ==
  [][(lastOp'.op = "click" /\ lastOp'.result = "OtherFileSelected") =>
       /\ file_path' \in Holders(lastOp'.index, file_clusters_map)
       /\ cluster_group' = file_clusters_map[file_path']
       /\ UNCHANGED <<loaded_clusters, file_clusters_map>>
       /\ Len(cluster_buttons') = Len(cluster_buttons)
       /\ \A i \in DOMAIN cluster_buttons :
            LET b == cluster_buttons'[i]
            IN  /\ b.index = cluster_buttons[i].index
                /\ b.index \in Covered(cluster_group') => b.style = "yellow"
                /\ (b.index \in Covered(cluster_group)
                      /\ b.index \notin Covered(cluster_group'))
                     => b.style = "blue"]_vars

\* After a switch of file, a button of the new extents and a button of the
\* extents of another file are both materialized.
C15_Witness ==
  /\ lastOp.op = "click"
  /\ lastOp.result = "OtherFileSelected"
  /\ \E i \in DOMAIN cluster_buttons :
       cluster_buttons[i].index \in Covered(cluster_group)
  /\ \E i \in DOMAIN cluster_buttons, p \in DOMAIN file_clusters_map :
       /\ p # file_path
       /\ cluster_buttons[i].index \in Covered(file_clusters_map[p])
       /\ cluster_buttons[i].style = "blue"

\* The view of the window.
View == [loaded |-> loaded_clusters, buttons |-> cluster_buttons]

\* C16: a second initial load with the same extents and total, with no
\* load in between, materializes nothing and leaves loaded unchanged.
C16_InitialLoadIdempotent ==
  /\ (lastOp.op = "load" /\ lastOp.result = "displayed") =>
       display_clusters_near_highlighted(
           View, cluster_group, file_clusters_map, lastOp.disk,
           visible_range) = View
  /\ \A d \in {0, TotalClusters} :
       LET once == display_clusters_near_highlighted(
                     View, cluster_group, file_clusters_map, d, visible_range)
       IN  display_clusters_near_highlighted(
             once, cluster_group, file_clusters_map, d, visible_range) = once

\* An initial load that materialized the margin of a file of one range.
C16_Witness ==
  /\ lastOp.op = "load"
  /\ lastOp.result = "displayed"
  /\ Len(cluster_group) = 1
  /\ Cardinality(loaded_clusters) >= 2 * visible_range

\* The indices of the buttons of the window.
ButtonIndices == {cluster_buttons[i].index : i \in DOMAIN cluster_buttons}

\* C17: right after a successful load cluster_buttons holds exactly one
\* button per index of loaded and none left from the load before.
C17_ReloadDestroysView ==
  (lastOp.op = "load" /\ lastOp.result = "displayed") =>
    /\ ButtonIndices = loaded_clusters
    /\ Len(cluster_buttons) = Cardinality(loaded_clusters)

\* The style the current highlight and map give to a cluster.
StyleOf(index) ==
  IF index \in Covered(cluster_group) THEN "yellow"
  ELSE IF Holders(index, file_clusters_map) # {} THEN "blue"
  ELSE "gray"

\* C18: with pairwise disjoint extents, in every reachable state each
\* button is yellow exactly when its index is in the highlighted extents,
\* blue exactly when it is in another mapped file's extents, and gray
\* otherwise.
C18_StylesMatchHighlight ==
  PairwiseDisjoint(file_clusters_map) =>
    \A i \in DOMAIN cluster_buttons :
      cluster_buttons[i].style = StyleOf(cluster_buttons[i].index)

\* C19: on a disk of TotalClusters clusters an extend above leaves
\* min(loaded) where it was only at cluster 0, an extend below leaves
\* max(loaded) where it was only at the last cluster, so that repeated
\* scrolling reaches both ends, and every index between the old and the new
\* boundary is loaded.
C19_ScrollReachesEdges ==
  [][/\ (Extended(TRUE) /\ loaded_clusters # {}
           /\ lastOp'.disk = TotalClusters) =>
          LET old == SetMin(loaded_clusters)
              new == SetMin(loaded_clusters')
          IN  /\ new = old => old = 0
              /\ new..old \subseteq loaded_clusters'
     /\ (Extended(FALSE) /\ loaded_clusters # {}
           /\ lastOp'.disk = TotalClusters) =>
          LET old == SetMax(loaded_clusters)
              new == SetMax(loaded_clusters')
          IN  /\ new = old => old = TotalClusters - 1
              /\ new <= TotalClusters - 1
              /\ old..new \subseteq loaded_clusters']_vars

\* C20: in every reachable state cluster_group is the map's entry of
\* file_path, or empty when file_path is not a key of the map.
C20_HighlightMatchesMap ==
  cluster_group = (IF file_path \in DOMAIN file_clusters_map
                   THEN file_clusters_map[file_path] ELSE <<>>)

====
